---- MODULE Spec2Model ----
(***************************************************************************)
(* A model of the rslox scanner (src/src/scanner.rs): the Scanner struct   *)
(* (input, current, tokens), the loop of Scanner::scan and every arm of    *)
(* Scanner::scan_next_token.                                               *)
(*                                                                         *)
(* A char is modelled as a string: an ASCII character as itself, any other *)
(* character by its code point ("U+00B2").  `current` keeps the 0-based    *)
(* value it has in the code; a TLA+ sequence is 1-based, so the code's     *)
(* input[current] is input[current + 1] here.                              *)
(***************************************************************************)
EXTENDS Integers, Sequences, FiniteSets, TLC

(***************************************************************************)
(* Bounds of the model.                                                    *)
(***************************************************************************)
\* Inputs over CoreChars have at most MaxLen characters.
MaxLen == 4
\* An input built from Lexemes is a lexeme and at most MaxFollowers followers.
MaxFollowers == 1

(***************************************************************************)
(* Characters.                                                             *)
(***************************************************************************)
Tab == "\t"
LineFeed == "\n"
CarriageReturn == "\r"
Space == " "
DoubleQuote == "\""
\* Characters outside ASCII, and ASCII control characters, by code point.
VerticalTab == "U+000B"
FormFeed == "U+000C"
NoBreakSpace == "U+00A0"
SuperscriptTwo == "U+00B2"
ArabicIndicThree == "U+0663"
RomanNumeralEight == "U+2167"
CjkHui == "U+4F1A"

AsciiDigits == {"0", "1", "2", "3", "4", "5", "6", "7", "8", "9"}

AsciiLetters ==
  {"a", "c", "d", "e", "f", "h", "i", "l", "n", "o", "p", "r", "s", "t", "u",
   "v", "w", "y", "A"}

PunctuationChars == {"(", ")", "{", "}", ",", ".", ";", "-", "+", "*"}

OperatorChars == {"!", "=", "<", ">"}

\* The characters of the model: every character a match arm names, the
\* letters of the keywords, and representatives of each Unicode class the
\* char predicates of the standard library tell apart.
Char ==
  PunctuationChars \cup OperatorChars \cup AsciiDigits \cup AsciiLetters
    \cup {"/", DoubleQuote, Space, Tab, LineFeed, CarriageReturn,
          VerticalTab, FormFeed, NoBreakSpace, SuperscriptTwo, ArabicIndicThree,
          RomanNumeralEight, CjkHui, "?", "_", "@"}

\* char::is_whitespace: the Unicode White_Space property.
WhiteSpaceChars ==
  {Space, Tab, LineFeed, CarriageReturn, VerticalTab, FormFeed, NoBreakSpace}

\* char::is_numeric: the general categories Nd, Nl and No.
NumericChars ==
  AsciiDigits \cup {SuperscriptTwo, ArabicIndicThree, RomanNumeralEight}

\* char::is_alphabetic: the Unicode Alphabetic property (it includes Nl).
AlphabeticChars == AsciiLetters \cup {CjkHui, RomanNumeralEight}

(***************************************************************************)
(* The predicate closures (scanner.rs 17-45), as functions on Char.        *)
(***************************************************************************)
equals(ch) == [c \in Char |-> c = ch]

is_numeric == [c \in Char |-> c \in NumericChars]

is_alphabetic == [c \in Char |-> c \in AlphabeticChars]

\* A whitespace predicate that forgets the line breaks.
is_whitespace_BlanksOnly == [c \in Char |-> c \in {Space, Tab}]

\* A whitespace predicate that does not know the carriage return.
is_whitespace_NoCarriageReturn ==
  [c \in Char |-> c \in WhiteSpaceChars \ {CarriageReturn}]

is_whitespace == [c \in Char |-> c \in WhiteSpaceChars]

is_not_newline == [c \in Char |-> c # LineFeed]

is_not_double_quote == [c \in Char |-> c # DoubleQuote]

(***************************************************************************)
(* Tokens (TokenKind) and errors.                                          *)
(***************************************************************************)
Tok(k) == [kind |-> k]

NumberTok(n) == [kind |-> "Number", value |-> n]

StringTok(s) == [kind |-> "String", text |-> s]

EndOfFile == Tok("EndOfFile")

NoError == [kind |-> "None"]

\* bail!("scanner: unrecognized token: '{}'", ch)
UnrecognizedToken(ch) == [kind |-> "UnrecognizedToken", ch |-> ch]

\* bail!("unrecognized keyword: {}", word)
UnrecognizedKeyword(word) == [kind |-> "UnrecognizedKeyword", word |-> word]

\* bail!("unterminated string")
UnterminatedString == [kind |-> "UnterminatedString"]

\* The panic of self.input[..] on an index or a range out of bounds: no
\* error that scan returns, the end of the program.
IndexOutOfBounds == [kind |-> "Panic", why |-> "IndexOutOfBounds"]

\* ParseIntError of kind PosOverflow: "number too large to fit in target type"
NumberOverflow == [kind |-> "ParseIntError", why |-> "PosOverflow"]

\* ParseIntError of kind InvalidDigit: "invalid digit found in string"
InvalidDigit == [kind |-> "ParseIntError", why |-> "InvalidDigit"]

(***************************************************************************)
(* The cursor primitives.                                                  *)
(***************************************************************************)
is_at_end(inp, cur) == cur >= Len(inp)

\* The bounds check of inp[index] and of inp[from..to] on a Vec.
index_in_bounds(inp, index) == index < Len(inp)

range_in_bounds(inp, from, to) == from <= to /\ to <= Len(inp)

next(inp, cur) == inp[cur + 1]

advance(cur) == cur + 1

\* try_eat_next: the cursor afterwards and the Option<char> returned.
try_eat_next(inp, cur, predicate) ==
  IF is_at_end(inp, cur)
  THEN [current |-> cur, some |-> FALSE]
  ELSE IF predicate[next(inp, cur)]
       THEN [current |-> advance(cur), some |-> TRUE, ch |-> next(inp, cur)]
       ELSE [current |-> cur, some |-> FALSE]

\* while self.try_eat_next(&predicate).is_some() {}
RECURSIVE consume_while(_, _, _)
consume_while(inp, cur, predicate) ==
  LET r == try_eat_next(inp, cur, predicate)
  IN IF r.some THEN consume_while(inp, r.current, predicate) ELSE cur

consume_whitespace(inp, cur) == consume_while(inp, cur, is_whitespace)

\* A comment that takes its line feed with it.
consume_single_line_comment_EatsLineFeed(inp, cur) ==
  LET c == consume_while(inp, cur, is_not_newline)
  IN IF is_at_end(inp, c) THEN c ELSE advance(c)

\* A comment that a double quote ends, as if a string opened there.
consume_single_line_comment_StopsAtQuote(inp, cur) ==
  consume_while(inp, cur, [c \in Char |-> c # LineFeed /\ c # DoubleQuote])

consume_single_line_comment(inp, cur) == consume_while(inp, cur, is_not_newline)

\* while let Some(ch) = self.try_eat_next(p) { text.push(ch) }
RECURSIVE eat_run(_, _, _, _)
eat_run(inp, cur, text, predicate) ==
  LET r == try_eat_next(inp, cur, predicate)
  IN IF r.some
     THEN eat_run(inp, r.current, Append(text, r.ch), predicate)
     ELSE [current |-> cur, text |-> text]

add_token(toks, kind) == Append(toks, kind)

(***************************************************************************)
(* literal.parse::<i32>() (scanner.rs 124): i32::from_str over the digits  *)
(* from left to right, each step a checked multiplication by ten and a     *)
(* checked addition; a character that is no ASCII digit is InvalidDigit.   *)
(***************************************************************************)
I32Max == 2147483647

DigitValue ==
  [c \in AsciiDigits |->
     CASE c = "0" -> 0 [] c = "1" -> 1 [] c = "2" -> 2 [] c = "3" -> 3
       [] c = "4" -> 4 [] c = "5" -> 5 [] c = "6" -> 6 [] c = "7" -> 7
       [] c = "8" -> 8 [] c = "9" -> 9]

\* The result of a parse: the value, or the error.
ParseOk(n) == [ok |-> TRUE, value |-> n]

ParseErr(e) == [ok |-> FALSE, err |-> e]

RECURSIVE parse_from(_, _, _)
parse_from(literal, i, acc) ==
  IF i > Len(literal)
  THEN ParseOk(acc)
  ELSE LET c == literal[i]
       IN IF c \notin AsciiDigits
          THEN ParseErr(InvalidDigit)
          ELSE IF acc > I32Max \div 10
               THEN ParseErr(NumberOverflow)
               ELSE IF acc * 10 > I32Max - DigitValue[c]
                    THEN ParseErr(NumberOverflow)
                    ELSE parse_from(literal, i + 1, acc * 10 + DigitValue[c])

\* ParseIntError of kind NegOverflow: "number too small to fit in target type"
NumberUnderflow == [kind |-> "ParseIntError", why |-> "NegOverflow"]

\* ParseIntError of kind Empty: "cannot parse integer from empty string"
EmptyLiteral == [kind |-> "ParseIntError", why |-> "Empty"]

I32Min == -I32Max - 1

\* The digits after a '-': each step a checked multiplication by ten and a
\* checked subtraction.
RECURSIVE parse_negative_from(_, _, _)
parse_negative_from(literal, i, acc) ==
  IF i > Len(literal)
  THEN ParseOk(acc)
  ELSE LET c == literal[i]
       IN IF c \notin AsciiDigits
          THEN ParseErr(InvalidDigit)
          ELSE IF acc < -(I32Max \div 10)
               THEN ParseErr(NumberUnderflow)
               ELSE IF acc * 10 < I32Min + DigitValue[c]
                    THEN ParseErr(NumberUnderflow)
                    ELSE parse_negative_from(literal, i + 1, acc * 10 - DigitValue[c])

\* i32::from_str: an empty string is Empty, a lone sign is InvalidDigit, a
\* leading '+' or '-' is the sign of the digits after it.
parse_i32(literal) ==
  IF Len(literal) = 0
  THEN ParseErr(EmptyLiteral)
  ELSE IF Len(literal) = 1 /\ literal[1] \in {"+", "-"}
       THEN ParseErr(InvalidDigit)
       ELSE IF literal[1] = "-"
            THEN parse_negative_from(literal, 2, 0)
            ELSE IF literal[1] = "+"
                 THEN parse_from(literal, 2, 0)
                 ELSE parse_from(literal, 1, 0)

(***************************************************************************)
(* The keyword table (scanner.rs 133-151).                                 *)
(***************************************************************************)
Keywords ==
  { [word |-> <<"a", "n", "d">>, kind |-> "And"],
    [word |-> <<"c", "l", "a", "s", "s">>, kind |-> "Class"],
    [word |-> <<"e", "l", "s", "e">>, kind |-> "Else"],
    [word |-> <<"f", "a", "l", "s", "e">>, kind |-> "False"],
    [word |-> <<"f", "o", "r">>, kind |-> "For"],
    [word |-> <<"f", "u", "n">>, kind |-> "Fun"],
    [word |-> <<"i", "f">>, kind |-> "If"],
    [word |-> <<"n", "i", "l">>, kind |-> "Nil"],
    [word |-> <<"o", "r">>, kind |-> "Or"],
    [word |-> <<"p", "r", "i", "n", "t">>, kind |-> "Print"],
    [word |-> <<"r", "e", "t", "u", "r", "n">>, kind |-> "Return"],
    [word |-> <<"s", "u", "p", "e", "r">>, kind |-> "Super"],
    [word |-> <<"t", "h", "i", "s">>, kind |-> "This"],
    [word |-> <<"t", "r", "u", "e">>, kind |-> "True"],
    [word |-> <<"v", "a", "r">>, kind |-> "Var"],
    [word |-> <<"w", "h", "i", "l", "e">>, kind |-> "While"] }

KeywordWords == {k.word : k \in Keywords}

KeywordKind(word) == (CHOOSE k \in Keywords : k.word = word).kind

(***************************************************************************)
(* The arms of the match in scan_next_token.  Each takes the input, the    *)
(* cursor after eat_next (c1), the tokens so far and the character eaten,  *)
(* and gives the scanner's fields afterwards and the error raised, if any. *)
(***************************************************************************)
Outcome(cur, toks, err) == [current |-> cur, tokens |-> toks, err |-> err]

PunctuationKind ==
  [c \in PunctuationChars |->
     CASE c = "(" -> "LeftParen" [] c = ")" -> "RightParen"
       [] c = "{" -> "LeftBrace" [] c = "}" -> "RightBrace"
       [] c = "," -> "Comma" [] c = "." -> "Dot" [] c = ";" -> "Semicolon"
       [] c = "-" -> "Minus" [] c = "+" -> "Plus" [] c = "*" -> "Star"]

\* A punctuation arm that takes a doubled character as one token.
punctuation_arm_TakesDoubled(inp, c1, toks, ch) ==
  Outcome(try_eat_next(inp, c1, equals(ch)).current,
          add_token(toks, Tok(PunctuationKind[ch])), NoError)

\* A punctuation arm that reads a '-' before digits as the sign of a number.
punctuation_arm_SignsNumber(inp, c1, toks, ch) ==
  LET run == eat_run(inp, c1, <<ch>>, is_numeric)
      number == parse_i32(run.text)
  IN IF ch = "-" /\ Len(run.text) > 1 /\ number.ok
     THEN Outcome(run.current, add_token(toks, NumberTok(number.value)), NoError)
     ELSE Outcome(c1, add_token(toks, Tok(PunctuationKind[ch])), NoError)

punctuation_arm(inp, c1, toks, ch) ==
  Outcome(c1, add_token(toks, Tok(PunctuationKind[ch])), NoError)

slash_arm(inp, c1, toks, ch) ==
  LET r == try_eat_next(inp, c1, equals("/"))
  IN IF r.some
     THEN Outcome(consume_single_line_comment(inp, r.current), toks, NoError)
     ELSE Outcome(r.current, add_token(toks, Tok("Slash")), NoError)

OneCharKind ==
  [c \in OperatorChars |->
     CASE c = "!" -> "Bang" [] c = "=" -> "Equal"
       [] c = "<" -> "Less" [] c = ">" -> "Greater"]

TwoCharKind ==
  [c \in OperatorChars |->
     CASE c = "!" -> "BangEqual" [] c = "=" -> "EqualEqual"
       [] c = "<" -> "LessEqual" [] c = ">" -> "GreaterEqual"]

\* An operator arm without the lookahead: the one-character token always.
operator_arm_NoLookahead(inp, c1, toks, ch) ==
  Outcome(c1, add_token(toks, Tok(OneCharKind[ch])), NoError)

operator_arm(inp, c1, toks, ch) ==
  LET r == try_eat_next(inp, c1, equals("="))
  IN IF r.some
     THEN Outcome(r.current, add_token(toks, Tok(TwoCharKind[ch])), NoError)
     ELSE Outcome(r.current, add_token(toks, Tok(OneCharKind[ch])), NoError)

\* A string arm whose slice ends one character late: the closing quote is
\* part of the text.
string_arm_KeepsClosingQuote(inp, c1, toks, ch) ==
  LET start == c1
      c2 == consume_while(inp, c1, is_not_double_quote)
  IN IF is_at_end(inp, c2)
     THEN Outcome(c2, toks, UnterminatedString)
     ELSE LET c3 == advance(c2)
              end == c3
              string == SubSeq(inp, start + 1, end)
          IN Outcome(c3, add_token(toks, StringTok(string)), NoError)

\* A string arm that takes the end of the input for a closing quote.
string_arm_EndOfInputCloses(inp, c1, toks, ch) ==
  LET start == c1
      c2 == consume_while(inp, c1, is_not_double_quote)
  IN IF is_at_end(inp, c2)
     THEN Outcome(c2, add_token(toks, StringTok(SubSeq(inp, start + 1, c2))), NoError)
     ELSE LET c3 == advance(c2)
              end == c3 - 1
              string == SubSeq(inp, start + 1, end)
          IN Outcome(c3, add_token(toks, StringTok(string)), NoError)

\* A string arm that goes back to the body after the closing quote, to scan
\* it once more.
string_arm_RescansBody(inp, c1, toks, ch) ==
  LET start == c1
      c2 == consume_while(inp, c1, is_not_double_quote)
  IN IF is_at_end(inp, c2)
     THEN Outcome(c2, toks, UnterminatedString)
     ELSE LET c3 == advance(c2)
              end == c3 - 1
              string == SubSeq(inp, start + 1, end)
          IN Outcome(start, add_token(toks, StringTok(string)), NoError)

string_arm(inp, c1, toks, ch) ==
  LET start == c1
      c2 == consume_while(inp, c1, is_not_double_quote)
  IN IF is_at_end(inp, c2)
     THEN Outcome(c2, toks, UnterminatedString)
     ELSE LET c3 == advance(c2)
              end == c3 - 1
              \* self.input[start..end]
              string == SubSeq(inp, start + 1, end)
          IN IF range_in_bounds(inp, start, end)
             THEN Outcome(c3, add_token(toks, StringTok(string)), NoError)
             ELSE Outcome(c3, toks, IndexOutOfBounds)

numeric_arm(inp, c1, toks, ch) ==
  LET run == eat_run(inp, c1, <<ch>>, is_numeric)
      number == parse_i32(run.text)
  IN IF number.ok
     THEN Outcome(run.current, add_token(toks, NumberTok(number.value)), NoError)
     ELSE Outcome(run.current, toks, number.err)

alphabetic_arm(inp, c1, toks, ch) ==
  LET run == eat_run(inp, c1, <<ch>>, is_alphabetic)
      word == run.text
  IN IF word \in KeywordWords
     THEN Outcome(run.current, add_token(toks, Tok(KeywordKind(word))), NoError)
     ELSE Outcome(run.current, toks, UnrecognizedKeyword(word))

\* A fallback arm that puts the character back and reports nothing.
fallback_arm_PutsBack(inp, c1, toks, ch) == Outcome(c1 - 1, toks, NoError)

\* A fallback arm that reports the character after the offending one, when
\* there is one.
fallback_arm_ReportsNeighbour(inp, c1, toks, ch) ==
  Outcome(c1, toks,
          UnrecognizedToken(IF is_at_end(inp, c1) THEN ch ELSE next(inp, c1)))

\* A fallback arm that drops the character and goes on.
fallback_arm_DropsCharacter(inp, c1, toks, ch) == Outcome(c1, toks, NoError)

fallback_arm(inp, c1, toks, ch) == Outcome(c1, toks, UnrecognizedToken(ch))

\* The arm the match selects for ch: the patterns in the order of the source.
ArmOf(ch) ==
  CASE ch \in PunctuationChars -> "punctuation"
    [] ch = "/" -> "slash"
    [] ch \in OperatorChars -> "operator"
    [] ch = DoubleQuote -> "string"
    [] ch \notin PunctuationChars \cup OperatorChars \cup {"/", DoubleQuote}
         /\ is_numeric[ch] -> "numeric"
    [] ch \notin PunctuationChars \cup OperatorChars \cup {"/", DoubleQuote}
         /\ ~is_numeric[ch] /\ is_alphabetic[ch] -> "alphabetic"
    [] OTHER -> "fallback"

\* let ch = self.eat_next(); match ch { ... } at the token start c0.
match_arms(inp, c0, toks) ==
  LET ch == next(inp, c0)
      c1 == advance(c0)
      arm == ArmOf(ch)
  IN IF ~index_in_bounds(inp, c0)
     THEN \* next() reads self.input[self.current]
          Outcome(c0, toks, IndexOutOfBounds)
     ELSE CASE arm = "punctuation" -> punctuation_arm(inp, c1, toks, ch)
            [] arm = "slash" -> slash_arm(inp, c1, toks, ch)
            [] arm = "operator" -> operator_arm(inp, c1, toks, ch)
            [] arm = "string" -> string_arm(inp, c1, toks, ch)
            [] arm = "numeric" -> numeric_arm(inp, c1, toks, ch)
            [] arm = "alphabetic" -> alphabetic_arm(inp, c1, toks, ch)
            [] OTHER -> fallback_arm(inp, c1, toks, ch)

\* A scan_next_token that emits EndOfFile itself when it finds the end.
scan_next_token_EmitsEof(inp, cur, toks) ==
  LET c0 == consume_whitespace(inp, cur)
  IN IF is_at_end(inp, c0)
     THEN Outcome(c0, add_token(toks, EndOfFile), NoError)
     ELSE match_arms(inp, c0, toks)

\* A scan_next_token without the early return at the end of the input.
scan_next_token_NoEarlyReturn(inp, cur, toks) ==
  match_arms(inp, consume_whitespace(inp, cur), toks)

\* scan_next_token: the scanner's fields afterwards and the error returned.
scan_next_token(inp, cur, toks) ==
  LET c0 == consume_whitespace(inp, cur)
  IN IF is_at_end(inp, c0)
     THEN Outcome(c0, toks, NoError)
     ELSE match_arms(inp, c0, toks)

(***************************************************************************)
(* Scanner::scan as a function of the input: Result<Vec<Token>>.           *)
(***************************************************************************)
Pending == [kind |-> "Pending"]

Ok(toks) == [kind |-> "Ok", tokens |-> toks]

Err(e) == [kind |-> "Err", error |-> e]

\* scan did not return: it panicked.
Panicked == [kind |-> "Panic"]

RECURSIVE scan_loop(_, _, _)
scan_loop(inp, cur, toks) ==
  LET out == scan_next_token(inp, cur, toks)
  IN IF out.err # NoError
     THEN IF out.err = IndexOutOfBounds THEN Panicked ELSE Err(out.err)
     ELSE IF is_at_end(inp, out.current)
          THEN Ok(add_token(out.tokens, EndOfFile))
          ELSE scan_loop(inp, out.current, out.tokens)

\* pub fn scan(input): Scanner::new(input).scan()
scan(inp) == scan_loop(inp, 0, <<>>)

(***************************************************************************)
(* The inputs of the model.                                                *)
(***************************************************************************)
\* Every string of at most MaxLen characters over CoreChars, which hold a
\* character of every arm.
CoreChars == {Space, LineFeed, "/", "=", "<", DoubleQuote, "1", "o", "?"}

CoreInputs == UNION {[1..n -> CoreChars] : n \in 0..MaxLen}

\* Longer pieces of text: the keywords and their neighbours, numbers around
\* the i32 maximum, and the characters CoreChars leave out.
Lexemes ==
  KeywordWords
    \cup {<<c>> : c \in Char \ ({"1", "2", "3", "4", "5", "6"}
                                  \cup (AsciiLetters \ {"d", "y", "A"}))}
    \cup { <<"a", "n">>,
           <<"2", "1", "4", "7", "4", "8", "3", "6", "4">>,
           <<"2", "1", "4", "7", "4", "8", "3", "6", "4", "7">> }

\* What may follow a lexeme, with or without a separator.
Followers ==
  { <<Space>>, <<LineFeed>>, <<"=">>, <<"/">>, <<"+">>, <<".">>, <<"-">>,
    <<DoubleQuote>>, <<"?">>, <<"0">>, <<"7">>, <<"8">>, <<"d">>, <<"y">>,
    <<"n", "d">>, <<"a", "n", "d">>, <<SuperscriptTwo>>, <<RomanNumeralEight>> }

RECURSIVE Followed(_, _)
Followed(texts, n) ==
  IF n = 0
  THEN texts
  ELSE Followed(texts \cup {t \o f : t \in texts, f \in Followers}, n - 1)

\* A lexeme and at most MaxFollowers followers.
LexemeInputs == Followed(Lexemes, MaxFollowers)

\* Texts longer than MaxLen, after the inputs of tests::code_comments and
\* tests::string_literal: a comment with a body and text after its line, a
\* string with a comment start, whitespace and a stray character inside.
SampleInputs ==
  { <<"/", "/", Space, "o", DoubleQuote, "?", LineFeed, "=", "1">>,
    <<"/", LineFeed, "/", "/", Space, "o", LineFeed, "/">>,
    <<"1", "/", "/", "o", "?">>,
    <<"3", "a", "n", "d">>,
    <<"a", "n", "d", "3">>,
    <<"1", ".", "5">>,
    <<"-", "5">>,
    <<"0", "0", "7">>,
    <<Space, Tab, Space, LineFeed, Space, CarriageReturn, Space>>,
    <<DoubleQuote, "/", "/", Space, "o", "?", LineFeed, "1", DoubleQuote, "=">> }

\* The whitespace of tests::ignores_whitespace: every string of at most
\* MaxLen spaces, tabs, line feeds and carriage returns.
BlankChars == {Space, Tab, LineFeed, CarriageReturn}

BlankInputs == UNION {[1..n -> BlankChars] : n \in 0..MaxLen}

Inputs == CoreInputs \cup LexemeInputs \cup SampleInputs \cup BlankInputs

(***************************************************************************)
(* The state: the fields of Scanner, where scan() is, and what it returned.*)
(***************************************************************************)
VARIABLES input, current, tokens, pc, result

vars == <<input, current, tokens, pc, result>>

\* Scanner::new
Init ==
  /\ input \in Inputs
  /\ current = 0
  /\ tokens = <<>>
  /\ pc = "scanning"
  /\ result = Pending

\* An iteration that recovers from an error: it goes on past the fault.
FinishIteration_KeepsScanning(out) ==
  /\ current' = out.current
  /\ IF is_at_end(input, out.current)
     THEN /\ tokens' = <<>>
          /\ result' = IF out.err # NoError
                       THEN Err(out.err)
                       ELSE Ok(add_token(out.tokens, EndOfFile))
          /\ pc' = "done"
     ELSE /\ tokens' = out.tokens
          /\ result' = result
          /\ pc' = "scanning"
  /\ input' = input

\* The rest of one iteration of the loop in scan(), given what
\* scan_next_token did: `?` returns its error (a panic ends the program);
\* at the end of the input EndOfFile is added and the tokens are taken out
\* of the scanner.
FinishIteration(out) ==
  /\ current' = out.current
  /\ IF out.err # NoError
     THEN /\ tokens' = out.tokens
          /\ result' = IF out.err = IndexOutOfBounds THEN Panicked ELSE Err(out.err)
          /\ pc' = "done"
     ELSE IF is_at_end(input, out.current)
          THEN /\ tokens' = <<>>
               /\ result' = Ok(add_token(out.tokens, EndOfFile))
               /\ pc' = "done"
          ELSE /\ tokens' = out.tokens
               /\ result' = result
               /\ pc' = "scanning"
  /\ input' = input

\* Where the next token starts: the cursor after consume_whitespace.
TokenStart == consume_whitespace(input, current)

\* The arm scan_next_token takes from here ("end": the early return).
ArmTaken ==
  IF is_at_end(input, TokenStart) THEN "end" ELSE ArmOf(next(input, TokenStart))

\* One iteration of the loop in scan(): scan_next_token, then the check of
\* is_at_end.  One action per arm of scan_next_token.
ScanAtEnd ==
  /\ pc = "scanning"
  /\ ArmTaken = "end"
  /\ FinishIteration(scan_next_token(input, current, tokens))

ScanPunctuation ==
  /\ pc = "scanning"
  /\ ArmTaken = "punctuation"
  /\ FinishIteration(scan_next_token(input, current, tokens))

ScanSlash ==
  /\ pc = "scanning"
  /\ ArmTaken = "slash"
  /\ FinishIteration(scan_next_token(input, current, tokens))

ScanOperator ==
  /\ pc = "scanning"
  /\ ArmTaken = "operator"
  /\ FinishIteration(scan_next_token(input, current, tokens))

ScanString ==
  /\ pc = "scanning"
  /\ ArmTaken = "string"
  /\ FinishIteration(scan_next_token(input, current, tokens))

ScanNumber ==
  /\ pc = "scanning"
  /\ ArmTaken = "numeric"
  /\ FinishIteration(scan_next_token(input, current, tokens))

ScanWord ==
  /\ pc = "scanning"
  /\ ArmTaken = "alphabetic"
  /\ FinishIteration(scan_next_token(input, current, tokens))

ScanUnrecognized ==
  /\ pc = "scanning"
  /\ ArmTaken = "fallback"
  /\ FinishIteration(scan_next_token(input, current, tokens))

Next ==
  \/ ScanAtEnd
  \/ ScanPunctuation
  \/ ScanSlash
  \/ ScanOperator
  \/ ScanString
  \/ ScanNumber
  \/ ScanWord
  \/ ScanUnrecognized

Spec == Init /\ [][Next]_vars

(***************************************************************************)
(* What the claims speak of.                                               *)
(***************************************************************************)
Done == pc = "done"

Succeeded == Done /\ result.kind = "Ok"

Failed == Done /\ result.kind = "Err"

\* The tokens emitted so far, EndOfFile apart: scan() takes them out of the
\* scanner when it returns them.
Emitted == IF Succeeded THEN SubSeq(result.tokens, 1, Len(result.tokens) - 1) ELSE tokens

(***************************************************************************)
(* C1.  scan returns an error, or a token sequence whose last element is   *)
(* EndOfFile and which holds no other EndOfFile; the empty input gives     *)
(* [EndOfFile].                                                            *)
(***************************************************************************)
C1_EndOfFileOnceAndLast ==
  Done =>
    /\ result.kind \in {"Ok", "Err"}
    /\ result.kind = "Ok" =>
         LET t == result.tokens
         IN /\ Len(t) >= 1
            /\ t[Len(t)] = EndOfFile
            /\ \A i \in 1..(Len(t) - 1) : t[i] # EndOfFile
    /\ input = <<>> => result = Ok(<<EndOfFile>>)

\* A scan that succeeded with tokens before its EndOfFile, after trailing
\* whitespace.
C1_Witness ==
  /\ Succeeded
  /\ Len(result.tokens) >= 3
  /\ input[Len(input)] \in WhiteSpaceChars

(***************************************************************************)
(* C2.  Every error is fatal and is the first fault in source order: the   *)
(* iteration that raises an error is the last one, scan returns that error *)
(* alone, without tokens, and everything before the faulty token scanned   *)
(* without error.                                                          *)
(***************************************************************************)
\* Characters that are a token, or skipped, whatever surrounds them.
HarmlessChars == WhiteSpaceChars \cup PunctuationChars \cup {">", "<", "!"}

C2_ReturnedErrorIsFirstFault ==
  Failed =>
    \* the error alone: no token sequence comes with it
    /\ DOMAIN result = {"kind", "error"}
    \* the text before the faulty token scans without error, to the tokens
    \* emitted so far, and the faulty token alone raises the error returned
    /\ \E s \in 0..current :
         /\ scan(SubSeq(input, 1, s)) = Ok(add_token(tokens, EndOfFile))
         /\ scan(SubSeq(input, s + 1, current)) = Err(result.error)
    \* an unrecognized character after harmless text is the fault reported,
    \* whatever follows it
    /\ \A i \in 1..Len(input) :
         (input[i] = "?" /\ \A j \in 1..(i - 1) : input[j] \in HarmlessChars)
           => (result = Err(UnrecognizedToken("?")) /\ current = i)

C2_ErrorsAreFatal ==
  /\ []C2_ReturnedErrorIsFirstFault
  /\ [][ /\ scan_next_token(input, current, tokens).err # NoError
           => (pc' = "done"
               /\ result' = Err(scan_next_token(input, current, tokens).err))
         /\ Done => UNCHANGED vars ]_vars

\* An unrecognized character after an emitted token and before an unknown
\* word: the scan stopped at the character.
C2_Witness ==
  /\ Failed
  /\ result.error.kind = "UnrecognizedToken"
  /\ Len(tokens) > 0
  /\ \E i \in (current + 1)..Len(input) : input[i] = "o"

(***************************************************************************)
(* C3.  A scan terminates: every iteration of the loop of Scanner::scan    *)
(* strictly advances the cursor, or is the last one.                       *)
(***************************************************************************)
\* The arms an action of Next exists for.
Arms ==
  {"end", "punctuation", "slash", "operator", "string", "numeric",
   "alphabetic", "fallback"}

\* The iteration to take from here returns, or moves the cursor forward.
IterationAdvancesOrEnds ==
  LET out == scan_next_token(input, current, tokens)
  IN \/ out.err # NoError
     \/ is_at_end(input, out.current)
     \/ out.current > current

\* The cursor is bounded by the length of the input, an iteration that does
\* not return moves it forward, and until scan returns there is such an
\* iteration to take: so scan returns after at most Len(input) + 1
\* iterations.
C3_EveryIterationAdvancesOrEnds ==
  /\ [][pc' = "scanning" => current' > current]_vars
  /\ [](current <= Len(input))
  /\ [](pc = "scanning" => (ArmTaken \in Arms /\ IterationAdvancesOrEnds))
  /\ [](pc \in {"scanning", "done"})

\* After an iteration that emitted nothing (a comment) and goes on.
C3_Witness == pc = "scanning" /\ current > 0 /\ tokens = <<>>

(***************************************************************************)
(* C4.  Composition: for inputs a and b that scan without error and a      *)
(* non-empty separator of spaces, tabs, line feeds and carriage returns,   *)
(* scan(a + separator + b) succeeds with the tokens of scan(a) followed by *)
(* the tokens of scan(b) (each without its EndOfFile).                     *)
(***************************************************************************)
SeparatorChars == {Space, Tab, LineFeed, CarriageReturn}

WithoutEndOfFile(r) == SubSeq(r.tokens, 1, Len(r.tokens) - 1)

\* The ways to read the input as a + separator + b: a is the first i
\* characters, b starts after the first j.
Splits ==
  { ij \in (0..Len(input)) \X (0..Len(input)) :
      /\ ij[1] < ij[2]
      /\ \A k \in (ij[1] + 1)..ij[2] : input[k] \in SeparatorChars }

PartA(ij) == SubSeq(input, 1, ij[1])

Separator(ij) == SubSeq(input, ij[1] + 1, ij[2])

PartB(ij) == SubSeq(input, ij[2] + 1, Len(input))

BothScan(ij) == scan(PartA(ij)).kind = "Ok" /\ scan(PartB(ij)).kind = "Ok"

Composes(ij) ==
  result = Ok(WithoutEndOfFile(scan(PartA(ij)))
                \o WithoutEndOfFile(scan(PartB(ij)))
                \o <<EndOfFile>>)

\* The claim as stated: for every a, also one that ends in a comment.
C4_ComposesAlways ==
  Done => \A ij \in Splits : BothScan(ij) => Composes(ij)

\* The last iteration of the scan of inp read a "//" comment up to the end
\* of inp: inp ends inside a comment that no line feed closes.
RECURSIVE EndsInComment(_, _)
EndsInComment(inp, cur) ==
  LET c0 == consume_whitespace(inp, cur)
      out == scan_next_token(inp, cur, <<>>)
  IN IF is_at_end(inp, c0) \/ out.err # NoError
     THEN FALSE
     ELSE IF is_at_end(inp, out.current)
          THEN next(inp, c0) = "/" /\ out.tokens = <<>>
          ELSE EndsInComment(inp, out.current)

HasLineFeed(text) == \E k \in 1..Len(text) : text[k] = LineFeed

\* C4 as amended: composition holds when a does not end inside a comment,
\* or the separator holds a line feed (which closes the comment).
C4_ComposesUnlessCommentOpen ==
  Done =>
    \A ij \in Splits :
      (BothScan(ij) /\ (~EndsInComment(PartA(ij), 0) \/ HasLineFeed(Separator(ij))))
        => Composes(ij)

\* a ends inside a comment, the separator closes it with a line feed, and b
\* has tokens.
C4_Witness ==
  /\ Done
  /\ \E ij \in Splits :
       /\ BothScan(ij)
       /\ EndsInComment(PartA(ij), 0)
       /\ HasLineFeed(Separator(ij))
       /\ Len(scan(PartB(ij)).tokens) > 1

(***************************************************************************)
(* C5.  Comment erasure: "//" + c + line feed + r, with no line feed in c, *)
(* scans to what r scans to.  A comment emits no token and leaves the      *)
(* cursor on the next line feed; one that reaches the end of the input     *)
(* yields EndOfFile after the tokens before it.                            *)
(***************************************************************************)
\* The index of the first line feed at or after index p, Len(input) + 1 if
\* there is none.
FirstLineFeedFrom(p) ==
  IF \E k \in p..Len(input) : input[k] = LineFeed
  THEN CHOOSE k \in p..Len(input) :
         input[k] = LineFeed /\ \A j \in p..(k - 1) : input[j] # LineFeed
  ELSE Len(input) + 1

StartsWithComment == Len(input) >= 2 /\ input[1] = "/" /\ input[2] = "/"

C5_LeadingCommentIsErased ==
  (Done /\ StartsWithComment /\ FirstLineFeedFrom(3) <= Len(input))
    => result = scan(SubSeq(input, FirstLineFeedFrom(3) + 1, Len(input)))

\* The token that starts here is "//".
AtCommentStart ==
  /\ pc = "scanning"
  /\ TokenStart + 2 <= Len(input)
  /\ input[TokenStart + 1] = "/"
  /\ input[TokenStart + 2] = "/"

C5_CommentErasure ==
  /\ []C5_LeadingCommentIsErased
  /\ [][AtCommentStart =>
          /\ Emitted' = tokens
          /\ current' = FirstLineFeedFrom(TokenStart + 3) - 1
          /\ FirstLineFeedFrom(TokenStart + 3) > Len(input)
               => result' = Ok(add_token(tokens, EndOfFile))]_vars

\* A comment with a body, then a line with tokens.
C5_Witness ==
  /\ Succeeded
  /\ StartsWithComment
  /\ FirstLineFeedFrom(3) \in 4..(Len(input) - 1)
  /\ Len(result.tokens) > 1

(***************************************************************************)
(* C6.  Maximal munch for the lookahead operators: a token that starts at  *)
(* '!', '=', '<' or '>' is the two-character token (BangEqual, EqualEqual, *)
(* LessEqual, GreaterEqual), over two characters, if and only if the next  *)
(* character is '='; otherwise the one-character token (Bang, Equal, Less, *)
(* Greater), over one character.  "<<==" is [Less, LessEqual, Equal,       *)
(* EndOfFile] and "===" is [EqualEqual, Equal, EndOfFile].                 *)
(***************************************************************************)
AtOperator ==
  /\ pc = "scanning"
  /\ TokenStart < Len(input)
  /\ input[TokenStart + 1] \in {"!", "=", "<", ">"}

EqualFollows == TokenStart + 2 <= Len(input) /\ input[TokenStart + 2] = "="

ExpectedOperator(ch, two) ==
  CASE ch = "!" -> IF two THEN Tok("BangEqual") ELSE Tok("Bang")
    [] ch = "=" -> IF two THEN Tok("EqualEqual") ELSE Tok("Equal")
    [] ch = "<" -> IF two THEN Tok("LessEqual") ELSE Tok("Less")
    [] ch = ">" -> IF two THEN Tok("GreaterEqual") ELSE Tok("Greater")

C6_Examples ==
  /\ (Done /\ input = <<"<", "<", "=", "=">>)
       => result = Ok(<<Tok("Less"), Tok("LessEqual"), Tok("Equal"), EndOfFile>>)
  /\ (Done /\ input = <<"=", "=", "=">>)
       => result = Ok(<<Tok("EqualEqual"), Tok("Equal"), EndOfFile>>)

C6_MaximalMunch ==
  /\ [][AtOperator =>
          /\ Emitted' = Append(tokens, ExpectedOperator(input[TokenStart + 1], EqualFollows))
          /\ current' = TokenStart + (IF EqualFollows THEN 2 ELSE 1)]_vars
  /\ []C6_Examples

\* "<<==" scanned to its end.
C6_Witness == Done /\ input = <<"<", "<", "=", "=">> /\ Len(result.tokens) = 4

(***************************************************************************)
(* C7.  A maximal run of decimal digits is one token Number(n), n the      *)
(* decimal value of the run, exactly when n is at most 2147483647; a run   *)
(* of greater value fails with the number-overflow error, and no Number of *)
(* a wrapped or truncated value is emitted.                                *)
(***************************************************************************)
AtDigit ==
  /\ pc = "scanning"
  /\ TokenStart < Len(input)
  /\ input[TokenStart + 1] \in AsciiDigits

\* The index of the last character of the maximal run of digits 0-9 that
\* starts at index p.
DigitRunEnd(p) ==
  CHOOSE e \in p..Len(input) :
    /\ \A k \in p..e : input[k] \in AsciiDigits
    /\ e = Len(input) \/ input[e + 1] \notin AsciiDigits

DigitRun == SubSeq(input, TokenStart + 1, DigitRunEnd(TokenStart + 1))

RECURSIVE WithoutLeadingZeros(_)
WithoutLeadingZeros(digits) ==
  IF Len(digits) > 1 /\ digits[1] = "0"
  THEN WithoutLeadingZeros(Tail(digits))
  ELSE digits

I32MaxDigits == <<"2", "1", "4", "7", "4", "8", "3", "6", "4", "7">>

\* a <= b for digit strings of one length: the order of their first difference
SameLengthAtMost(a, b) ==
  \/ a = b
  \/ \E k \in 1..Len(a) :
       /\ \A j \in 1..(k - 1) : a[j] = b[j]
       /\ DigitValue[a[k]] < DigitValue[b[k]]

\* The value of the digit string is at most 2147483647.
FitsI32(digits) ==
  LET d == WithoutLeadingZeros(digits)
  IN \/ Len(d) < Len(I32MaxDigits)
     \/ Len(d) = Len(I32MaxDigits) /\ SameLengthAtMost(d, I32MaxDigits)

DigitChar(v) == CHOOSE c \in AsciiDigits : DigitValue[c] = v

\* The decimal text of n >= 0.
RECURSIVE DecimalText(_)
DecimalText(n) ==
  IF n < 10
  THEN <<DigitChar(n)>>
  ELSE Append(DecimalText(n \div 10), DigitChar(n % 10))

\* The step from a digit does to the run what the claim says.
DigitRunIsNumberOrOverflow ==
  IF FitsI32(DigitRun)
  THEN /\ Len(Emitted') = Len(tokens) + 1
       /\ SubSeq(Emitted', 1, Len(tokens)) = tokens
       /\ Emitted'[Len(Emitted')].kind = "Number"
       /\ DecimalText(Emitted'[Len(Emitted')].value) = WithoutLeadingZeros(DigitRun)
       /\ current' = DigitRunEnd(TokenStart + 1)
  ELSE /\ pc' = "done"
       /\ result' = Err(NumberOverflow)
       /\ tokens' = tokens

\* The claim as stated.
C7_DigitRunIsNumberOrOverflow ==
  [][AtDigit => DigitRunIsNumberOrOverflow]_vars

\* The numeric run that starts at the token start holds digits 0-9 only: the
\* character after the digits is not one more character of
\* char::is_numeric.
RunIsAsciiOnly ==
  LET e == DigitRunEnd(TokenStart + 1)
  IN e = Len(input) \/ ~is_numeric[input[e + 1]]

\* What the code does keep of the claim: runs that no other numeric
\* character continues.
AsciiOnlyRunIsNumberOrOverflow ==
  [][(AtDigit /\ RunIsAsciiOnly) => DigitRunIsNumberOrOverflow]_vars

(***************************************************************************)
(* C8.  String literal extraction: a token that starts at a '"' with a     *)
(* later '"' is one String token whose text is the characters strictly     *)
(* between the opening quote and the first '"' after it (possibly none,    *)
(* unprocessed), and the cursor ends right after that closing quote.       *)
(***************************************************************************)
AtQuote ==
  /\ pc = "scanning"
  /\ TokenStart < Len(input)
  /\ input[TokenStart + 1] = DoubleQuote

\* The indices of the quotes after the opening quote.
LaterQuotes == {k \in (TokenStart + 2)..Len(input) : input[k] = DoubleQuote}

ClosingQuote == CHOOSE k \in LaterQuotes : \A j \in LaterQuotes : k <= j

C8_StringIsTextBetweenQuotes ==
  [][(AtQuote /\ LaterQuotes # {}) =>
       /\ Emitted' = Append(tokens,
                            StringTok(SubSeq(input, TokenStart + 2, ClosingQuote - 1)))
       /\ current' = ClosingQuote]_vars

\* A String token was emitted whose text holds what no other arm would take
\* as it is: a comment start, whitespace, an unrecognized character.
C8_Witness ==
  \E i \in 1..Len(Emitted) :
    /\ Emitted[i].kind = "String"
    /\ \E k \in 1..Len(Emitted[i].text) : Emitted[i].text[k] = "?"

(***************************************************************************)
(* C9.  Unterminated string: a token that starts at a '"' with no '"'      *)
(* after it (the opening quote may be the last character) fails the scan   *)
(* with UnterminatedString, and no String token is emitted for it.         *)
(***************************************************************************)
C9_UnterminatedStringFails ==
  [][(AtQuote /\ LaterQuotes = {}) =>
       /\ pc' = "done"
       /\ result' = Err(UnterminatedString)
       /\ tokens' = tokens]_vars

\* The scan failed on an opening quote that is the last character, after
\* emitting a token.
C9_Witness ==
  /\ Failed
  /\ result.error = UnterminatedString
  /\ input[Len(input)] = DoubleQuote
  /\ Len(tokens) > 0

(***************************************************************************)
(* C10.  Keyword exactness: a maximal run of alphabetic characters is a    *)
(* keyword token if and only if it is, case-sensitively, one of the 16     *)
(* words and, class, else, false, for, fun, if, nil, or, print, return,    *)
(* super, this, true, var, while, each with a token kind of its own; every *)
(* other alphabetic run fails with UnrecognizedKeyword.                    *)
(***************************************************************************)
AtLetter ==
  /\ pc = "scanning"
  /\ TokenStart < Len(input)
  /\ input[TokenStart + 1] \in AlphabeticChars

\* The index of the last character of the maximal alphabetic run that
\* starts at index p.
LetterRunEnd(p) ==
  CHOOSE e \in p..Len(input) :
    /\ \A k \in p..e : input[k] \in AlphabeticChars
    /\ e = Len(input) \/ input[e + 1] \notin AlphabeticChars

LetterRun == SubSeq(input, TokenStart + 1, LetterRunEnd(TokenStart + 1))

\* The 16 words of the claim and their kinds.
ClaimedKeyword(w) ==
  CASE w = <<"a", "n", "d">> -> "And"
    [] w = <<"c", "l", "a", "s", "s">> -> "Class"
    [] w = <<"e", "l", "s", "e">> -> "Else"
    [] w = <<"f", "a", "l", "s", "e">> -> "False"
    [] w = <<"f", "o", "r">> -> "For"
    [] w = <<"f", "u", "n">> -> "Fun"
    [] w = <<"i", "f">> -> "If"
    [] w = <<"n", "i", "l">> -> "Nil"
    [] w = <<"o", "r">> -> "Or"
    [] w = <<"p", "r", "i", "n", "t">> -> "Print"
    [] w = <<"r", "e", "t", "u", "r", "n">> -> "Return"
    [] w = <<"s", "u", "p", "e", "r">> -> "Super"
    [] w = <<"t", "h", "i", "s">> -> "This"
    [] w = <<"t", "r", "u", "e">> -> "True"
    [] w = <<"v", "a", "r">> -> "Var"
    [] w = <<"w", "h", "i", "l", "e">> -> "While"
    [] OTHER -> "none"

\* The step from a letter does to the run what the claim says.
LetterRunIsKeywordOrFails ==
  IF ClaimedKeyword(LetterRun) # "none"
  THEN /\ Emitted' = Append(tokens, Tok(ClaimedKeyword(LetterRun)))
       /\ current' = LetterRunEnd(TokenStart + 1)
  ELSE /\ pc' = "done"
       /\ result' = Err(UnrecognizedKeyword(LetterRun))
       /\ tokens' = tokens

\* The claim as stated.
C10_AlphabeticRunIsKeywordOrFails ==
  [][AtLetter => LetterRunIsKeywordOrFails]_vars

\* What the code does keep of the claim: runs whose first character is not
\* also of char::is_numeric, which the match tries first.
NonNumericLetterRunIsKeywordOrFails ==
  [][(AtLetter /\ ~is_numeric[input[TokenStart + 1]])
       => LetterRunIsKeywordOrFails]_vars

(***************************************************************************)
(* C11.  Unrecognized character: when the character a token starts at is   *)
(* not punctuation, an operator character, a quote, numeric or alphabetic  *)
(* ('?', '_', '@'), the scan fails with UnrecognizedToken, and the error   *)
(* carries exactly that character, not a neighbouring one.                 *)
(***************************************************************************)
\* The characters some rule of the scanner has a token for ('/' is among
\* the fixed punctuation).
RecognizedChars ==
  PunctuationChars \cup {"/"} \cup OperatorChars \cup {DoubleQuote}
    \cup NumericChars \cup AlphabeticChars

\* The token that starts here starts at a character no rule recognizes.
AtUnrecognized ==
  /\ pc = "scanning"
  /\ TokenStart < Len(input)
  /\ input[TokenStart + 1] \notin RecognizedChars

C11_UnrecognizedCharacterIsReported ==
  /\ [][AtUnrecognized =>
          /\ pc' = "done"
          /\ result' = Err(UnrecognizedToken(input[TokenStart + 1]))
          /\ tokens' = tokens
          /\ current' = TokenStart + 1]_vars
  /\ [](\A c \in {"?", "_", "@"} :
          (Done /\ input = <<c>>) => result = Err(UnrecognizedToken(c)))

\* The scan failed on '?', '_' or '@' between two other characters, after
\* emitting a token.
C11_Witness ==
  /\ Failed
  /\ result.error.kind = "UnrecognizedToken"
  /\ result.error.ch \in {"_", "@", "?"}
  /\ current \in 2..(Len(input) - 1)
  /\ input[current - 1] # input[current]
  /\ input[current + 1] # input[current]
  /\ Len(tokens) > 0

(***************************************************************************)
(* C12.  Whitespace erasure: every input that consists solely of spaces,   *)
(* tabs, line feeds and carriage returns, in any combination and of any    *)
(* length, the empty input included, scans successfully to exactly         *)
(* [EndOfFile].                                                            *)
(***************************************************************************)
OnlyBlanks ==
  \A k \in 1..Len(input) : input[k] \in {Space, Tab, LineFeed, CarriageReturn}

C12_WhitespaceScansToEndOfFile ==
  /\ []((Done /\ OnlyBlanks) => result = Ok(<<EndOfFile>>))
  /\ [][(pc = "scanning" /\ OnlyBlanks) =>
          /\ pc' = "done"
          /\ result' = Ok(<<EndOfFile>>)
          /\ current' = Len(input)]_vars

\* The scan of " \t \n \r " returned.
C12_Witness ==
  /\ Done
  /\ OnlyBlanks
  /\ input = <<Space, Tab, Space, LineFeed, Space, CarriageReturn, Space>>

(***************************************************************************)
(* C13.  Every token kind the scanner emits is a variant of the TokenKind  *)
(* declared in token.rs, which holds the fixed punctuation and operators   *)
(* with Star and Slash, the eight comparison and assignment variants, the  *)
(* 16 keyword kinds, Number, String and EndOfFile: no step produces a kind *)
(* outside the declared set.                                               *)
(***************************************************************************)
\* pub enum TokenKind (token.rs 2-22): the names of its variants.
TokenKind ==
  {"Bang", "BangEqual", "Equal", "EqualEqual", "Less", "LessEqual",
   "Greater", "GreaterEqual", "Comma", "Dot", "LeftParen", "RightParen",
   "LeftBrace", "RightBrace", "Minus", "Plus", "Semicolon", "Number",
   "EndOfFile"}

\* The tokens made so far, in the scanner or in what scan() returned.
TokensMade == IF Succeeded THEN result.tokens ELSE tokens

\* The claim as stated, of the enum that token.rs declares.
C13_EmittedKindsAreDeclared ==
  \A i \in 1..Len(TokensMade) : TokensMade[i].kind \in TokenKind

\* The union the claim describes.
ClaimedKinds ==
  {"LeftParen", "RightParen", "LeftBrace", "RightBrace", "Comma", "Dot",
   "Semicolon", "Minus", "Plus", "Star", "Slash",
   "Bang", "BangEqual", "Equal", "EqualEqual", "Less", "LessEqual",
   "Greater", "GreaterEqual",
   "And", "Class", "Else", "False", "For", "Fun", "If", "Nil", "Or", "Print",
   "Return", "Super", "This", "True", "Var", "While",
   "Number", "String", "EndOfFile"}

\* What the code does keep of the claim: the scanner emits no kind outside
\* the union the claim describes, and token.rs declares no kind outside it.
EmittedKindsAreOfTheClaimedUnion ==
  /\ \A i \in 1..Len(TokensMade) : TokensMade[i].kind \in ClaimedKinds
  /\ TokenKind \subseteq ClaimedKinds

(***************************************************************************)
(* C14.  The scanner never re-examines a consumed character: across every  *)
(* step of a scan the cursor is non-decreasing (it is incremented only),   *)
(* so the source spans of the emitted tokens are pairwise disjoint and are *)
(* in the token sequence in strictly increasing source order.              *)
(***************************************************************************)
\* From c, with predicate p, no cursor primitive moves the cursor back.
OnlyIncrements(c, p) ==
  /\ try_eat_next(input, c, p).current \in {c, c + 1}
  /\ consume_while(input, c, p) >= c
  /\ eat_run(input, c, <<>>, p).current >= c

\* So it is from every position ahead, with every predicate the scanner
\* moves its cursor with.
PrimitivesOnlyIncrement ==
  \A c \in current..Len(input) :
    /\ advance(c) = c + 1
    /\ OnlyIncrements(c, is_whitespace)
    /\ OnlyIncrements(c, is_not_newline)
    /\ OnlyIncrements(c, is_not_double_quote)
    /\ OnlyIncrements(c, is_numeric)
    /\ OnlyIncrements(c, is_alphabetic)
    /\ OnlyIncrements(c, equals("/"))
    /\ OnlyIncrements(c, equals("="))

\* The cursors of the iteration to take from here are in order: before the
\* whitespace, at the token start, after eat_next, after the arm.
IterationOnlyIncrements ==
  pc = "scanning" =>
    /\ current <= TokenStart
    /\ ~is_at_end(input, TokenStart) =>
         advance(TokenStart) <= scan_next_token(input, current, tokens).current

\* The source span of every token the scan of inp emits from cur on: the
\* token start and the cursor after the iteration that emitted it.
RECURSIVE spans_from(_, _, _)
spans_from(inp, cur, toks) ==
  LET c0 == consume_whitespace(inp, cur)
      out == scan_next_token(inp, cur, toks)
      here == IF Len(out.tokens) > Len(toks)
              THEN <<[start |-> c0, end |-> out.current,
                      token |-> out.tokens[Len(out.tokens)]]>>
              ELSE <<>>
  IN IF out.err # NoError \/ is_at_end(inp, out.current)
     THEN here
     ELSE here \o spans_from(inp, out.current, out.tokens)

TokenSpans == spans_from(input, 0, <<>>)

\* The spans are not empty, lie in the input, are pairwise disjoint and in
\* the order of the tokens, and each is the source text of its token: that
\* text alone scans to the token.
DisjointAndOrdered(spans) ==
  /\ \A i \in 1..Len(spans) :
       /\ 0 <= spans[i].start
       /\ spans[i].start < spans[i].end
       /\ spans[i].end <= Len(input)
       /\ scan(SubSeq(input, spans[i].start + 1, spans[i].end))
            = Ok(<<spans[i].token, EndOfFile>>)
  /\ \A i, j \in 1..Len(spans) : i < j => spans[i].end <= spans[j].start
  /\ Done => [i \in 1..Len(spans) |-> spans[i].token] = Emitted

\* The spans are a function of the input alone: they are looked at when the
\* scan starts and when it has returned.
SpansAreDisjointAndOrdered ==
  (current = 0 \/ Done) => DisjointAndOrdered(TokenSpans)

C14_CursorNeverGoesBack ==
  /\ [][current' >= current]_vars
  /\ []PrimitivesOnlyIncrement
  /\ []IterationOnlyIncrements
  /\ []SpansAreDisjointAndOrdered

\* Three tokens or more, with skipped text between two of them.
C14_Witness ==
  /\ Succeeded
  /\ Len(TokenSpans) >= 3
  /\ \E i \in 1..(Len(TokenSpans) - 1) :
       TokenSpans[i].end < TokenSpans[i + 1].start

(***************************************************************************)
(* C15.  The characters skipped as whitespace are exactly space, tab, line *)
(* feed and carriage return: any other character that is not punctuation, *)
(* an operator, a quote, numeric or alphabetic (form feed U+000C, vertical *)
(* tab U+000B, no-break space U+00A0) at a token start fails the scan with *)
(* UnrecognizedToken and is not skipped.                                   *)
(***************************************************************************)
\* The whitespace of the claim.
is_claimed_whitespace ==
  [c \in Char |-> c \in {Space, Tab, LineFeed, CarriageReturn}]

\* Where the claim has the next token start: after the spaces, tabs, line
\* feeds and carriage returns.
ClaimedTokenStart == consume_while(input, current, is_claimed_whitespace)

\* The claim as stated.
C15_OnlyFourCharactersAreSkipped ==
  [][(/\ pc = "scanning"
      /\ ClaimedTokenStart < Len(input)
      /\ input[ClaimedTokenStart + 1] \notin RecognizedChars)
       => /\ pc' = "done"
          /\ result' = Err(UnrecognizedToken(input[ClaimedTokenStart + 1]))]_vars

\* What the code does: it skips the characters of char::is_whitespace, all
\* of them and no other.
SkippedAreWhiteSpace ==
  pc = "scanning" =>
    /\ \A k \in (current + 1)..TokenStart : input[k] \in WhiteSpaceChars
    /\ TokenStart < Len(input) => input[TokenStart + 1] \notin WhiteSpaceChars
    /\ \A c \in {VerticalTab, FormFeed, NoBreakSpace} :
         input = <<c>> => scan(input) = Ok(<<EndOfFile>>)

(***************************************************************************)
(* C16.  Adjacent runs need no separator and digits never join a word: a   *)
(* digit run ends at the first non-numeric character and an alphabetic run *)
(* at the first non-alphabetic character, so a number immediately followed *)
(* by letters is the Number and then a separate word ("0d" fails with      *)
(* 'unrecognized keyword: d', "3and" is [Number(3), And, EndOfFile]), and  *)
(* a keyword immediately followed by digits is the keyword and then a      *)
(* Number ("and3" is [And, Number(3), EndOfFile]).                         *)
(***************************************************************************)
AtNumeric ==
  /\ pc = "scanning"
  /\ TokenStart < Len(input)
  /\ input[TokenStart + 1] \in NumericChars

\* A word starts here: a letter that the numeric rule does not take first.
AtWord == AtLetter /\ ~AtNumeric

\* The index of the last character of the maximal run of numeric characters
\* that starts at index p.
NumericRunEnd(p) ==
  CHOOSE e \in p..Len(input) :
    /\ \A k \in p..e : input[k] \in NumericChars
    /\ e = Len(input) \/ input[e + 1] \notin NumericChars

\* A character of the set follows the run that ends at index e.
Follows(e, chars) == e < Len(input) /\ input[e + 1] \in chars

\* Every run ends where its class of characters ends.
RunsEndAtTheirClass ==
  /\ AtNumeric => current' = NumericRunEnd(TokenStart + 1)
  /\ AtWord => current' = LetterRunEnd(TokenStart + 1)

\* The step from here emitted a Number, unless its value was too large.
NumberOrOverflow ==
  \/ /\ pc' = "done"
     /\ result' = Err(NumberOverflow)
  \/ /\ Len(Emitted') = Len(tokens) + 1
     /\ SubSeq(Emitted', 1, Len(tokens)) = tokens
     /\ Emitted'[Len(Emitted')].kind = "Number"

\* A number with a letter right after it is the Number, and the word starts
\* at the letter.
NumberThenWord ==
  (AtNumeric /\ Follows(NumericRunEnd(TokenStart + 1), AlphabeticChars))
    => /\ NumberOrOverflow
       /\ pc' = "scanning" => ArmTaken' = "alphabetic"

\* A keyword with a numeric character right after it is the keyword, and
\* the number starts at that character.
KeywordThenNumber ==
  (/\ AtWord
   /\ ClaimedKeyword(LetterRun) # "none"
   /\ Follows(LetterRunEnd(TokenStart + 1), NumericChars))
    => /\ Emitted' = Append(tokens, Tok(ClaimedKeyword(LetterRun)))
       /\ pc' = "scanning"
       /\ ArmTaken' = "numeric"

C16_Examples ==
  /\ (Done /\ input = <<"0", "d">>)
       => (result = Err(UnrecognizedKeyword(<<"d">>)) /\ tokens = <<NumberTok(0)>>)
  /\ (Done /\ input = <<"3", "a", "n", "d">>)
       => result = Ok(<<NumberTok(3), Tok("And"), EndOfFile>>)
  /\ (Done /\ input = <<"a", "n", "d", "3">>)
       => result = Ok(<<Tok("And"), NumberTok(3), EndOfFile>>)

\* The claim as stated.
C16_AdjacentRunsAreSeparateTokens ==
  /\ [][RunsEndAtTheirClass /\ NumberThenWord /\ KeywordThenNumber]_vars
  /\ []C16_Examples

\* What the code does keep of the claim: the examples, the ends of the
\* runs, the keyword before a number, and the number before a word when
\* the number's run is of the digits 0-9 only.
AdjacentAsciiRunsAreSeparateTokens ==
  /\ [][/\ RunsEndAtTheirClass
        /\ KeywordThenNumber
        /\ (/\ AtNumeric
            /\ \A k \in (TokenStart + 1)..NumericRunEnd(TokenStart + 1) :
                 input[k] \in AsciiDigits) => NumberThenWord]_vars
  /\ []C16_Examples

(***************************************************************************)
(* C17.  Each of the punctuation characters ( ) { } , . ; - + * emits      *)
(* exactly its own token and consumes exactly one character, whatever the  *)
(* characters around it, and '/' emits Slash whenever the next character   *)
(* is not '/'; '.' between digits is a separate Dot: "1.5" scans to        *)
(* [Number(1), Dot, Number(5), EndOfFile].                                 *)
(***************************************************************************)
AtPunctuation ==
  /\ pc = "scanning"
  /\ TokenStart < Len(input)
  /\ input[TokenStart + 1] \in {"(", ")", "{", "}", ",", ".", ";", "-", "+", "*"}

\* A '/' that no second '/' follows.
AtLoneSlash ==
  /\ pc = "scanning"
  /\ TokenStart < Len(input)
  /\ input[TokenStart + 1] = "/"
  /\ ~(TokenStart + 2 <= Len(input) /\ input[TokenStart + 2] = "/")

\* The token of each punctuation character.
ClaimedPunctuation(ch) ==
  CASE ch = "(" -> Tok("LeftParen") [] ch = ")" -> Tok("RightParen")
    [] ch = "{" -> Tok("LeftBrace") [] ch = "}" -> Tok("RightBrace")
    [] ch = "," -> Tok("Comma") [] ch = "." -> Tok("Dot")
    [] ch = ";" -> Tok("Semicolon") [] ch = "-" -> Tok("Minus")
    [] ch = "+" -> Tok("Plus") [] ch = "*" -> Tok("Star")

C17_Example ==
  (Done /\ input = <<"1", ".", "5">>)
    => result = Ok(<<NumberTok(1), Tok("Dot"), NumberTok(5), EndOfFile>>)

C17_PunctuationIsOneCharacter ==
  /\ [][/\ AtPunctuation =>
             /\ Emitted' = Append(tokens, ClaimedPunctuation(input[TokenStart + 1]))
             /\ current' = TokenStart + 1
        /\ AtLoneSlash =>
             /\ Emitted' = Append(tokens, Tok("Slash"))
             /\ current' = TokenStart + 1]_vars
  /\ []C17_Example

\* "1.5" scanned to its end: a Dot between two Numbers.
C17_Witness ==
  /\ Succeeded
  /\ input = <<"1", ".", "5">>
  /\ Len(result.tokens) = 4
  /\ result.tokens[2] = Tok("Dot")

(***************************************************************************)
(* C18.  Memory safety of the cursor: in every reachable state             *)
(* 0 <= current <= length of the input; input[current] is read (by next,   *)
(* through eat_next and try_eat_next) only when current < length; and in   *)
(* the string arm start <= end = current - 1 <= length, so the slice       *)
(* input[start..end] is in bounds.  No input makes the scanner index out   *)
(* of range.                                                               *)
(***************************************************************************)
CursorInBounds == 0 <= current /\ current <= Len(input)

\* scan did not panic on an index or a range out of bounds.
NoPanic == result # Panicked

\* The read of eat_next, at the token start, and the reads of try_eat_next,
\* which follow its own check of is_at_end, are in bounds.
ReadsInBounds ==
  /\ (pc = "scanning" /\ ArmTaken # "end") => index_in_bounds(input, TokenStart)
  /\ \A c \in 0..(Len(input) + 1) :
       ~is_at_end(input, c) => index_in_bounds(input, c)

\* The slice of the string arm: start is the cursor after the opening
\* quote, end the cursor after the closing quote less one.
StringSliceInBounds ==
  (AtQuote /\ LaterQuotes # {}) =>
    LET start == TokenStart + 1
        end == current' - 1
    IN /\ start <= end
       /\ end <= Len(input)
       /\ range_in_bounds(input, start, end)

C18_CursorStaysInBounds ==
  /\ []CursorInBounds
  /\ []NoPanic
  /\ []ReadsInBounds
  /\ [][StringSliceInBounds]_vars

\* The empty string at the very end of the input was scanned: start = end,
\* and the cursor is the length of the input.
C18_Witness ==
  /\ Succeeded
  /\ current = Len(input)
  /\ Len(input) >= 3
  /\ input[Len(input)] = DoubleQuote
  /\ input[Len(input) - 1] = DoubleQuote
  /\ result.tokens[Len(result.tokens) - 1] = StringTok(<<>>)

(***************************************************************************)
(* C19.  Literal and comment bodies are opaque.  Inside a string literal   *)
(* no other rule fires: "//", whitespace, line feeds, digits, letters and  *)
(* characters that would be UnrecognizedToken elsewhere are kept verbatim  *)
(* in the String text; they start no comment, are not skipped and raise no *)
(* error.  Inside a "//" comment a '"' opens no string and a character     *)
(* that is illegal elsewhere raises no error.                              *)
(***************************************************************************)
\* The body of the string literal that starts at the token start.
StringBody == SubSeq(input, TokenStart + 2, ClosingQuote - 1)

\* A string literal with its closing quote: whatever its body holds, the
\* scan goes on after the closing quote with one more token, the String of
\* the body as it is written.
StringBodyIsOpaque ==
  (AtQuote /\ LaterQuotes # {}) =>
    /\ scan_next_token(input, current, tokens)
         = Outcome(ClosingQuote, Append(tokens, StringTok(StringBody)), NoError)
    /\ Len(StringBody) = ClosingQuote - TokenStart - 2
    /\ \A k \in 1..Len(StringBody) : StringBody[k] = input[TokenStart + 1 + k]
    /\ scan_loop(input, current, tokens)
         = IF ClosingQuote = Len(input)
           THEN Ok(tokens \o <<StringTok(StringBody), EndOfFile>>)
           ELSE scan_loop(input, ClosingQuote, Append(tokens, StringTok(StringBody)))

\* A comment: whatever its body holds, the scan goes on at the line feed
\* that ends it, or ends with the input, with the tokens it had and without
\* an error.
CommentBodyIsOpaque ==
  AtCommentStart =>
    LET stop == FirstLineFeedFrom(TokenStart + 3) - 1
    IN /\ scan_next_token(input, current, tokens) = Outcome(stop, tokens, NoError)
       /\ scan_loop(input, current, tokens)
            = IF stop = Len(input)
              THEN Ok(add_token(tokens, EndOfFile))
              ELSE scan_loop(input, stop, tokens)

C19_BodiesAreOpaque == StringBodyIsOpaque /\ CommentBodyIsOpaque

\* A String was emitted whose text holds "//", a space, a letter, an
\* unrecognized character, a line feed and a digit.
C19_Witness ==
  \E i \in 1..Len(Emitted) :
    /\ Emitted[i].kind = "String"
    /\ LET text == Emitted[i].text
       IN /\ \E k \in 1..(Len(text) - 1) : text[k] = "/" /\ text[k + 1] = "/"
          /\ \A c \in {Space, "o", "?", LineFeed, "1"} :
               \E k \in 1..Len(text) : text[k] = c

(***************************************************************************)
(* C20.  Full consumption: EndOfFile is emitted only in a state where the  *)
(* cursor equals the length of the input, so a successful scan consumed    *)
(* every character; and each character was consumed as part of exactly one *)
(* of: a skipped whitespace run, a skipped comment, the span of exactly    *)
(* one emitted token.  No character is dropped outside those three cases.  *)
(***************************************************************************)
Region(kind, start, end) == [kind |-> kind, start |-> start, end |-> end]

\* What the scan of inp consumes from cur on, in order: the characters that
\* consume_whitespace skipped, then the characters the rest of the
\* iteration consumed, with a token, with an error, or with neither.
RECURSIVE regions_from(_, _, _)
regions_from(inp, cur, toks) ==
  LET c0 == consume_whitespace(inp, cur)
      out == scan_next_token(inp, cur, toks)
      skipped == IF c0 > cur THEN <<Region("whitespace", cur, c0)>> ELSE <<>>
      kind == IF out.err # NoError THEN "error"
              ELSE IF Len(out.tokens) > Len(toks) THEN "token" ELSE "silent"
      taken == IF out.current > c0 THEN <<Region(kind, c0, out.current)>> ELSE <<>>
  IN IF out.err # NoError \/ is_at_end(inp, out.current)
     THEN skipped \o taken
     ELSE skipped \o taken \o regions_from(inp, out.current, out.tokens)

Regions == regions_from(input, 0, <<>>)

\* The regions of a kind, in order.
RegionsOf(regions, kind) == SelectSeq(regions, LAMBDA r : r.kind = kind)

\* The region is a comment: "//" and what follows up to a line feed or the
\* end of the input.
IsComment(r) ==
  /\ r.end >= r.start + 2
  /\ input[r.start + 1] = "/"
  /\ input[r.start + 2] = "/"
  /\ \A k \in (r.start + 1)..r.end : input[k] # LineFeed
  /\ r.end = Len(input) \/ input[r.end + 1] = LineFeed

\* The regions tile the input, so that each character is in exactly one,
\* and each is a whitespace run, a comment or the span of one token.
ConsumedInThreeCases(regions) ==
  /\ \A i \in 1..Len(regions) : regions[i].start < regions[i].end
  /\ Len(input) > 0 =>
       /\ Len(regions) > 0
       /\ regions[1].start = 0
       /\ regions[Len(regions)].end = Len(input)
  /\ \A i \in 1..(Len(regions) - 1) : regions[i].end = regions[i + 1].start
  /\ \A k \in 1..Len(input) :
       Cardinality({i \in 1..Len(regions) :
                      regions[i].start < k /\ k <= regions[i].end}) = 1
  /\ \A i \in 1..Len(regions) :
       LET r == regions[i]
       IN CASE r.kind = "whitespace" ->
                 \A k \in (r.start + 1)..r.end : input[k] \in WhiteSpaceChars
            [] r.kind = "silent" -> IsComment(r)
            [] r.kind = "token" -> TRUE
            [] OTHER -> FALSE
  /\ LET spans == RegionsOf(regions, "token")
     IN /\ Len(spans) = Len(Emitted)
        /\ \A i \in 1..Len(spans) :
             scan(SubSeq(input, spans[i].start + 1, spans[i].end))
               = Ok(<<Emitted[i], EndOfFile>>)

\* EndOfFile is in what scan returned, with the cursor at the length of the
\* input, and never among the tokens of the scanner before that.
EndOfFileOnlyAtTheEnd ==
  /\ \A i \in 1..Len(tokens) : tokens[i] # EndOfFile
  /\ pc = "scanning" => result = Pending
  /\ Succeeded => current = Len(input)

C20_FullConsumption ==
  /\ EndOfFileOnlyAtTheEnd
  /\ Succeeded => ConsumedInThreeCases(Regions)

\* A successful scan that skipped whitespace and a comment and emitted two
\* tokens or more.
C20_Witness ==
  /\ Succeeded
  /\ Len(RegionsOf(Regions, "whitespace")) >= 1
  /\ Len(RegionsOf(Regions, "silent")) >= 1
  /\ Len(RegionsOf(Regions, "token")) >= 2

(***************************************************************************)
(* C21.  Number tokens are never negative: the literal is parsed as a      *)
(* signed 32-bit integer, yet every Number(n) the scanner emits has        *)
(* 0 <= n <= 2147483647; a leading '-' is always a separate Minus token    *)
(* before the Number ("-5" is [Minus, Number(5), EndOfFile]), and leading  *)
(* zeros are absorbed into the same token ("007" is [Number(7),            *)
(* EndOfFile]).                                                            *)
(***************************************************************************)
NumbersAreNotNegative ==
  \A i \in 1..Len(TokensMade) :
    TokensMade[i].kind = "Number"
      => (0 <= TokensMade[i].value /\ TokensMade[i].value <= 2147483647)

\* The parser itself does know the signs: it is the literal that never has
\* one.
ParserIsSigned ==
  /\ parse_i32(<<"-", "5">>) = ParseOk(-5)
  /\ parse_i32(<<"+", "5">>) = ParseOk(5)
  /\ parse_i32(<<"-", "2", "1", "4", "7", "4", "8", "3", "6", "4", "8">>)
       = ParseOk(-2147483647 - 1)
  /\ parse_i32(<<"-", "2", "1", "4", "7", "4", "8", "3", "6", "4", "9">>)
       = ParseErr(NumberUnderflow)
  /\ parse_i32(<<"-">>) = ParseErr(InvalidDigit)

AtMinus ==
  /\ pc = "scanning"
  /\ TokenStart < Len(input)
  /\ input[TokenStart + 1] = "-"

\* A '-' is a Minus token of its own, whatever follows it.
MinusIsSeparate ==
  AtMinus =>
    /\ Emitted' = Append(tokens, Tok("Minus"))
    /\ current' = TokenStart + 1

\* The zeros at the start of a digit run are of the token of the run: the
\* step takes the whole run, and the Number it emits, if any, is the value
\* of the run without them.
LeadingZerosAreAbsorbed ==
  (AtDigit /\ input[TokenStart + 1] = "0") =>
    /\ current' = NumericRunEnd(TokenStart + 1)
    /\ Len(Emitted') <= Len(tokens) + 1
    /\ Len(Emitted') = Len(tokens) + 1 =>
         /\ Emitted'[Len(Emitted')].kind = "Number"
         /\ DecimalText(Emitted'[Len(Emitted')].value)
              = WithoutLeadingZeros(DigitRun)
         /\ DigitRunEnd(TokenStart + 1) = NumericRunEnd(TokenStart + 1)

C21_Examples ==
  /\ (Done /\ input = <<"-", "5">>)
       => result = Ok(<<Tok("Minus"), NumberTok(5), EndOfFile>>)
  /\ (Done /\ input = <<"0", "0", "7">>)
       => result = Ok(<<NumberTok(7), EndOfFile>>)

C21_NumbersAreNeverNegative ==
  /\ []NumbersAreNotNegative
  /\ []ParserIsSigned
  /\ []C21_Examples
  /\ [][MinusIsSeparate /\ LeadingZerosAreAbsorbed]_vars

\* "-5" scanned to its end: a Minus, then a Number that is not negative.
C21_Witness ==
  /\ Succeeded
  /\ input = <<"-", "5">>
  /\ result.tokens[1] = Tok("Minus")
  /\ result.tokens[2].kind = "Number"
  /\ result.tokens[2].value = 5

====
